---- MODULE Spec2Model ----
(***************************************************************************)
(* RogerRoger MCP server (src/src/index.ts): the call-tool dispatcher, the *)
(* resource handlers, makeRequest and the tool catalog, as a state machine *)
(* over the invocations the host has in flight.                            *)
(*                                                                         *)
(* Texts are TLA+ strings, built with \o exactly as the template literals  *)
(* of the source build them.  JavaScript values (tool arguments, parsed    *)
(* response payloads, request options) are records                         *)
(*     [t |-> type, n |-> number, s |-> string, items |-> members]         *)
(* where items is the ordered list of [k |-> key, v |-> value] members of  *)
(* an object (k = "" for the elements of an array).                        *)
(***************************************************************************)
EXTENDS Integers, Sequences, FiniteSets, TLC

VARIABLES config, calls, process

vars == <<config, calls, process>>

-----------------------------------------------------------------------------
(* JavaScript values *)

Undefined == [t |-> "undefined", n |-> 0, s |-> "", items |-> <<>>]
Null == [t |-> "null", n |-> 0, s |-> "", items |-> <<>>]
Bool(b) == [t |-> "boolean", n |-> IF b THEN 1 ELSE 0, s |-> "", items |-> <<>>]
Num(n) == [t |-> "number", n |-> n, s |-> "", items |-> <<>>]
Str(s) == [t |-> "string", n |-> 0, s |-> s, items |-> <<>>]
Obj(items) == [t |-> "object", n |-> 0, s |-> "", items |-> items]
Arr(items) == [t |-> "array", n |-> 0, s |-> "", items |-> items]
Member(k, v) == [k |-> k, v |-> v]
EmptyObject == Obj(<<>>)

\* ToBoolean: `!x`, `x || y`, `if (x)`, `x ? a : b`
Truthy(v) ==
  CASE v.t = "undefined" -> FALSE
    [] v.t = "null" -> FALSE
    [] v.t = "boolean" -> v.n = 1
    [] v.t = "number" -> v.n # 0
    [] v.t = "string" -> v.s # ""
    [] OTHER -> TRUE

\* typeof x
TypeOf(v) ==
  CASE v.t = "null" -> "object"
    [] v.t = "array" -> "object"
    [] OTHER -> v.t

\* own property k of an object built by JSON.parse
HasOwn(v, k) == v.t = "object" /\ \E i \in 1..Len(v.items) : v.items[i].k = k

\* `k in x` for an object or array x and a non-index, non-builtin key k
In(k, v) == HasOwn(v, k)

\* x.k for a key k that no prototype defines (id, page, itemsPerPage, q, status)
Get(v, k) ==
  IF HasOwn(v, k)
  THEN v.items[CHOOSE i \in 1..Len(v.items) : v.items[i].k = k].v
  ELSE Undefined

\* a || b
Or(a, b) == IF Truthy(a) THEN a ELSE b

\* an own, non-callable toString shadows the prototype's: String(x) and
\* x.toString() then throw a TypeError
CanToString(v) == ~HasOwn(v, "toString")

RECURSIVE JsString(_)
RECURSIVE JoinElements(_, _)
\* Array.prototype.join(","): null and undefined elements give ""
JoinElements(items, i) ==
  IF i > Len(items) THEN ""
  ELSE (IF i > 1 THEN "," ELSE "")
       \o (IF items[i].v.t \in {"null", "undefined"} THEN "" ELSE JsString(items[i].v))
       \o JoinElements(items, i + 1)

\* String(x) and x.toString() where they do not throw
JsString(v) ==
  CASE v.t = "undefined" -> "undefined"
    [] v.t = "null" -> "null"
    [] v.t = "boolean" -> IF v.n = 1 THEN "true" ELSE "false"
    [] v.t = "number" -> ToString(v.n)
    [] v.t = "string" -> v.s
    [] v.t = "array" -> JoinElements(v.items, 1)
    [] OTHER -> "[object Object]"

RECURSIVE CanJoin(_, _)
CanJoin(items, i) ==
  i > Len(items) \/ (CanToString(items[i].v) /\ CanJoin(items, i + 1))

\* String(x) succeeds
CanString(v) == IF v.t = "array" THEN CanJoin(v.items, 1) ELSE CanToString(v)

-----------------------------------------------------------------------------
(* Strings *)

Ch(s, i) == SubSeq(s, i, i)

StartsWith(s, p) == Len(s) >= Len(p) /\ SubSeq(s, 1, Len(p)) = p

Digits == "0123456789"

IsDigit(c) == \E d \in 1..10 : Ch(Digits, d) = c

DigitValue(c) == (CHOOSE d \in 1..10 : Ch(Digits, d) = c) - 1

RECURSIVE Spaces(_)
Spaces(n) == IF n <= 0 THEN "" ELSE " " \o Spaces(n - 1)

-----------------------------------------------------------------------------
(* JSON.stringify(value, null, gap): gap = 0 is the compact form of the     *)
(* request body, gap = 2 the pretty-printed form of the result texts        *)

RECURSIVE Escape(_, _)
\* the quote and the backslash are escaped inside a JSON string
Escape(s, i) ==
  IF i > Len(s) THEN ""
  ELSE (IF Ch(s, i) \in {"\"", "\\"} THEN "\\" ELSE "") \o Ch(s, i) \o Escape(s, i + 1)

\* a string payload printed bare
QuoteNone(s) == s

Quote(s) == "\"" \o Escape(s, 1) \o "\""

RECURSIVE JsonStringify(_, _, _)
RECURSIVE StringifyMembers(_, _, _, _, _)
StringifyMembers(items, isObject, gap, indent, i) ==
  IF i > Len(items) THEN ""
  ELSE (IF i > 1 THEN "," ELSE "")
       \o (IF gap > 0 THEN "\n" \o Spaces(indent) ELSE "")
       \o (IF isObject
           THEN Quote(items[i].k) \o ":" \o (IF gap > 0 THEN " " ELSE "")
           ELSE "")
       \o JsonStringify(items[i].v, gap, indent)
       \o StringifyMembers(items, isObject, gap, indent, i + 1)

JsonStringify(v, gap, indent) ==
  CASE v.t = "null" -> "null"
    [] v.t = "boolean" -> IF v.n = 1 THEN "true" ELSE "false"
    [] v.t = "number" -> ToString(v.n)
    [] v.t = "string" -> Quote(v.s)
    [] v.t \in {"object", "array"} ->
         LET open == IF v.t = "object" THEN "{" ELSE "["
             close == IF v.t = "object" THEN "}" ELSE "]"
         IN IF v.items = <<>> THEN open \o close
            ELSE open
                 \o StringifyMembers(v.items, v.t = "object", gap, indent + gap, 1)
                 \o (IF gap > 0 THEN "\n" \o Spaces(indent) ELSE "")
                 \o close
    [] OTHER -> "undefined"

-----------------------------------------------------------------------------
(* response.json(): JSON.parse of the response body text.  The grammar is   *)
(* JSON without escapes in strings, fractions, exponents and signs.         *)

ParseFail == [ok |-> FALSE, v |-> Undefined, next |-> 0]
ParseOk(v, next) == [ok |-> TRUE, v |-> v, next |-> next]

RECURSIVE SkipWs(_, _)
SkipWs(s, i) ==
  IF i <= Len(s) /\ Ch(s, i) \in {" ", "\n", "\t", "\r"} THEN SkipWs(s, i + 1) ELSE i

RECURSIVE ScanString(_, _)
\* the index of the quote closing the string whose content starts at i, or 0
ScanString(s, i) ==
  IF i > Len(s) THEN 0
  ELSE IF Ch(s, i) = "\"" THEN i
  ELSE IF Ch(s, i) \in {"\\", "\n"} THEN 0
  ELSE ScanString(s, i + 1)

RECURSIVE ScanDigits(_, _)
\* the index after the run of digits that starts at i
ScanDigits(s, i) ==
  IF i <= Len(s) /\ IsDigit(Ch(s, i)) THEN ScanDigits(s, i + 1) ELSE i

RECURSIVE NatOf(_, _, _)
NatOf(s, i, j) ==
  IF j < i THEN 0 ELSE 10 * NatOf(s, i, j - 1) + DigitValue(Ch(s, j))

Literal(s, i, word, v) ==
  IF i + Len(word) - 1 <= Len(s) /\ SubSeq(s, i, i + Len(word) - 1) = word
  THEN ParseOk(v, i + Len(word))
  ELSE ParseFail

RECURSIVE ParseValue(_, _)
RECURSIVE ParseMembers(_, _, _, _)
\* the members of an object or array after its opening bracket, acc so far
ParseMembers(s, i, isObject, acc) ==
  LET close == IF isObject THEN "}" ELSE "]"
      i1 == SkipWs(s, i)
  IN IF i1 > Len(s) THEN ParseFail
     ELSE IF Ch(s, i1) = close /\ acc = <<>>
     THEN ParseOk(IF isObject THEN Obj(acc) ELSE Arr(acc), i1 + 1)
     ELSE LET q == IF isObject /\ Ch(s, i1) = "\"" THEN ScanString(s, i1 + 1) ELSE 0
              key == IF q > 0 THEN SubSeq(s, i1 + 1, q - 1) ELSE ""
              colon == IF q > 0 THEN SkipWs(s, q + 1) ELSE 0
              keyOk == ~isObject \/ (q > 0 /\ colon <= Len(s) /\ Ch(s, colon) = ":")
              r == IF ~keyOk THEN ParseFail
                   ELSE ParseValue(s, IF isObject THEN colon + 1 ELSE i1)
              i2 == IF r.ok THEN SkipWs(s, r.next) ELSE 0
              \* a repeated key keeps its first place and takes the last value
              acc2 == IF isObject /\ \E m \in 1..Len(acc) : acc[m].k = key
                      THEN [m \in 1..Len(acc) |->
                              IF acc[m].k = key THEN Member(key, r.v) ELSE acc[m]]
                      ELSE Append(acc, Member(key, r.v))
          IN IF ~r.ok \/ i2 > Len(s) THEN ParseFail
             ELSE IF Ch(s, i2) = close
             THEN ParseOk(IF isObject THEN Obj(acc2) ELSE Arr(acc2), i2 + 1)
             ELSE IF Ch(s, i2) = ","
             THEN LET i3 == SkipWs(s, i2 + 1)
                  IN IF i3 <= Len(s) /\ Ch(s, i3) = close THEN ParseFail
                     ELSE ParseMembers(s, i3, isObject, acc2)
             ELSE ParseFail

ParseValue(s, i0) ==
  LET i == SkipWs(s, i0)
      c == IF i <= Len(s) THEN Ch(s, i) ELSE ""
  IN CASE c = "n" -> Literal(s, i, "null", Null)
       [] c = "t" -> Literal(s, i, "true", Bool(TRUE))
       [] c = "f" -> Literal(s, i, "false", Bool(FALSE))
       [] c = "\"" ->
            LET q == ScanString(s, i + 1)
            IN IF q = 0 THEN ParseFail ELSE ParseOk(Str(SubSeq(s, i + 1, q - 1)), q + 1)
       [] c # "" /\ IsDigit(c) ->
            LET j == IF c = "0" THEN i + 1 ELSE ScanDigits(s, i)
            IN ParseOk(Num(NatOf(s, i, j - 1)), j)
       [] c = "{" -> ParseMembers(s, i + 1, TRUE, <<>>)
       [] c = "[" -> ParseMembers(s, i + 1, FALSE, <<>>)
       [] OTHER -> ParseFail

\* [ok, v]: ok iff the whole text is one JSON value
JsonParse(s) ==
  LET r == ParseValue(s, 1)
  IN IF r.ok /\ SkipWs(s, r.next) > Len(s)
     THEN [ok |-> TRUE, v |-> r.v]
     ELSE [ok |-> FALSE, v |-> Undefined]

-----------------------------------------------------------------------------
(* new URLSearchParams(params).toString(): application/x-www-form-urlencoded *)

Unreserved == "ABCDEFGHIJKLMNOPQRSTUVWXYZabcdefghijklmnopqrstuvwxyz0123456789*-._"

Hex == "0123456789ABCDEF"

\* the printable ASCII characters from code 32 on, in code order (a tab holds
\* the place of the grave accent, code 96, which no input contains)
Ascii == " !\"#$%&'()*+,-./0123456789:;<=>?@ABCDEFGHIJKLMNOPQRSTUVWXYZ[\\]^_\tabcdefghijklmnopqrstuvwxyz{|}~"

PercentEncode(c) ==
  LET code == 31 + (CHOOSE a \in 1..Len(Ascii) : Ch(Ascii, a) = c)
  IN "%" \o Ch(Hex, (code \div 16) + 1) \o Ch(Hex, (code % 16) + 1)

RECURSIVE FormEncode(_, _)
FormEncode(s, i) ==
  IF i > Len(s) THEN ""
  ELSE (IF \E u \in 1..Len(Unreserved) : Ch(Unreserved, u) = Ch(s, i) THEN Ch(s, i)
        ELSE IF Ch(s, i) = " " THEN "+"
        ELSE PercentEncode(Ch(s, i)))
       \o FormEncode(s, i + 1)

RECURSIVE SearchParamsToString(_, _)
\* name=value pairs in insertion order, joined by &
SearchParamsToString(items, i) ==
  IF i > Len(items) THEN ""
  ELSE (IF i > 1 THEN "&" ELSE "")
       \o FormEncode(items[i].k, 1) \o "=" \o FormEncode(JsString(items[i].v), 1)
       \o SearchParamsToString(items, i + 1)

\* the URLSearchParams constructor converts every value with String()
CanSearchParams(params) ==
  \A i \in 1..Len(params.items) : CanString(params.items[i].v)


-----------------------------------------------------------------------------
(* The tool catalog: the list-tools handler's static answer *)

Tool(name, properties, required) ==
  [name |-> name, properties |-> properties, required |-> required]

Catalog ==
  << Tool("get_people", <<"page", "itemsPerPage", "q">>, {}),
     Tool("get_person", <<"id">>, {"id"}),
     Tool("create_person", <<"name", "email", "phone", "company", "notes">>, {}),
     Tool("update_person", <<"id", "name", "email", "phone", "company", "notes">>, {"id"}),
     Tool("delete_person", <<"id">>, {"id"}),
     Tool("get_tasks", <<"page", "itemsPerPage", "status">>, {}),
     Tool("create_task", <<"title", "description", "due_date", "assignee_id", "priority">>,
          {"title"}),
     Tool("get_organizations", <<"page", "itemsPerPage", "q">>, {}),
     Tool("get_organization", <<"id">>, {"id"}),
     Tool("create_organization", <<"name", "website", "industry", "employees", "notes">>, {}),
     Tool("update_organization", <<"id", "name", "website", "industry", "employees", "notes">>,
          {"id"}),
     Tool("delete_organization", <<"id">>, {"id"}),
     Tool("get_lists", <<"page", "itemsPerPage">>, {}),
     Tool("get_list", <<"id">>, {"id"}),
     Tool("create_list", <<"title", "icon", "sequence">>, {"title", "icon"}),
     Tool("update_list", <<"id", "title", "icon", "sequence">>, {"id", "title", "icon"}),
     Tool("delete_list", <<"id">>, {"id"}),
     Tool("get_tags", <<"page", "itemsPerPage">>, {}),
     Tool("get_tag", <<"id">>, {"id"}),
     Tool("create_tag", <<"title", "backgroundColor", "textColor", "description">>, {"title"}),
     Tool("update_tag", <<"id", "title", "backgroundColor", "textColor", "description">>,
          {"id", "title"}),
     Tool("delete_tag", <<"id">>, {"id"}) >>

CatalogNames == {Catalog[i].name : i \in 1..Len(Catalog)}

\* an answer that lost its last tool
ListToolsResultShort == [tools |-> SubSeq(Catalog, 1, Len(Catalog) - 1)]

\* an answer that is empty while no API key is configured
ListToolsResultKeyed == [tools |-> IF config.apiKey = "" THEN <<>> ELSE Catalog]

\* the list-tools handler's answer
ListToolsResult == [tools |-> Catalog]

-----------------------------------------------------------------------------
(* What a handler does up to its await: it throws, or it calls makeRequest  *)
(* and will build its text from prefix and, when echo, the payload          *)

Options(method, body, params) == [method |-> method, body |-> body, params |-> params]

NoOptions == Options(Undefined, Undefined, Undefined)

Error(message) == [isError |-> TRUE, message |-> message]

Throw(message) ==
  [thrown |-> TRUE, error |-> Error(message), endpoint |-> "", options |-> NoOptions,
   prefix |-> "", echo |-> FALSE]

Await(endpoint, options, prefix, echo) ==
  [thrown |-> FALSE, error |-> Error(""), endpoint |-> endpoint, options |-> options,
   prefix |-> prefix, echo |-> echo]

NoPlan == Await("", NoOptions, "", FALSE)

\* a parameter forwarded whenever it is given, a zero included
WithToStringPresent(params, args, k) ==
  IF Get(args, k).t # "undefined"
  THEN Append(params, Member(k, Str(JsString(Get(args, k)))))
  ELSE params

\* if (args.k) params.k = args.k.toString();
WithToString(params, args, k) ==
  IF Truthy(Get(args, k))
  THEN Append(params, Member(k, Str(JsString(Get(args, k)))))
  ELSE params

\* if (args.k) params.k = args.k;
WithValue(params, args, k) ==
  IF Truthy(Get(args, k)) THEN Append(params, Member(k, Get(args, k))) ELSE params

\* args.k.toString() throws: the truthy value has no callable toString
ToStringThrows(args, k) == Truthy(Get(args, k)) /\ ~CanString(Get(args, k))

NotAFunction(k) == "args." \o k \o ".toString is not a function"

\* the params object another request in the table has left
Leftover ==
  IF \A c \in DOMAIN calls : calls[c].plan.options.params.t # "object" THEN <<>>
  ELSE calls[CHOOSE c \in DOMAIN calls : calls[c].plan.options.params.t = "object"]
         .plan.options.params.items

\* pagination lines that fill a params object kept from call to call
PagedLeaking(args) ==
  WithToString(WithToString(Leftover, args, "page"), args, "itemsPerPage")

\* the two pagination lines every list handler starts with
Paged(args) == WithToString(WithToString(<<>>, args, "page"), args, "itemsPerPage")

PagedThrows(args) == ToStringThrows(args, "page") \/ ToStringThrows(args, "itemsPerPage")

PagedError(args) ==
  Throw(NotAFunction(IF ToStringThrows(args, "page") THEN "page" ELSE "itemsPerPage"))

\* a body that keeps the id
RestKeepsId(args) == args

\* const { id: _, ...updateData } = args;
Rest(args) == Obj(SelectSeq(args.items, LAMBDA m : m.k # "id"))

getPeople(args) ==
  IF PagedThrows(args) THEN PagedError(args)
  ELSE Await("/people",
             Options(Undefined, Undefined, Obj(WithValue(Paged(args), args, "q"))),
             "", TRUE)

getPerson(id) == Await("/people/" \o id, NoOptions, "", TRUE)

createPerson(args) ==
  Await("/people", Options(Str("POST"), args, Undefined),
        "Person created successfully: ", TRUE)

updatePerson(id, args) ==
  Await("/people/" \o id, Options(Str("PUT"), Rest(args), Undefined),
        "Person updated successfully: ", TRUE)

deletePerson(id) ==
  Await("/people/" \o id, Options(Str("DELETE"), Undefined, Undefined),
        "Person with ID " \o id \o " deleted successfully", FALSE)

getTasks(args) ==
  IF PagedThrows(args) THEN PagedError(args)
  ELSE Await("/tasks",
             Options(Undefined, Undefined, Obj(WithValue(Paged(args), args, "status"))),
             "", TRUE)

createTask(args) ==
  Await("/tasks", Options(Str("POST"), args, Undefined),
        "Task created successfully: ", TRUE)

getOrganizations(args) ==
  IF PagedThrows(args) THEN PagedError(args)
  ELSE Await("/organizations",
             Options(Undefined, Undefined, Obj(WithValue(Paged(args), args, "q"))),
             "", TRUE)

getOrganization(id) == Await("/organizations/" \o id, NoOptions, "", TRUE)

createOrganization(args) ==
  Await("/organizations", Options(Str("POST"), args, Undefined),
        "Organization created successfully: ", TRUE)

updateOrganization(id, args) ==
  Await("/organizations/" \o id, Options(Str("PUT"), Rest(args), Undefined),
        "Organization updated successfully: ", TRUE)

deleteOrganization(id) ==
  Await("/organizations/" \o id, Options(Str("DELETE"), Undefined, Undefined),
        "Organization with ID " \o id \o " deleted successfully", FALSE)

getLists(args) ==
  IF PagedThrows(args) THEN PagedError(args)
  ELSE Await("/segments", Options(Undefined, Undefined, Obj(Paged(args))), "", TRUE)

getList(id) == Await("/segments/" \o id, NoOptions, "", TRUE)

\* a create handler that insists on the title the catalog requires
createListChecked(args) ==
  IF Get(args, "title").t = "undefined" THEN Throw("Missing required parameter: title")
  ELSE Await("/segments", Options(Str("POST"), args, Undefined),
             "List created successfully: ", TRUE)

createList(args) ==
  Await("/segments", Options(Str("POST"), args, Undefined),
        "List created successfully: ", TRUE)

\* an update of a list sent with PUT
updateListPut(id, args) ==
  Await("/segments/" \o id, Options(Str("PUT"), Rest(args), Undefined),
        "List updated successfully: ", TRUE)

updateList(id, args) ==
  Await("/segments/" \o id, Options(Str("PATCH"), Rest(args), Undefined),
        "List updated successfully: ", TRUE)

deleteList(id) ==
  Await("/segments/" \o id, Options(Str("DELETE"), Undefined, Undefined),
        "List with ID " \o id \o " deleted successfully", FALSE)

getTags(args) ==
  IF PagedThrows(args) THEN PagedError(args)
  ELSE Await("/tags", Options(Undefined, Undefined, Obj(Paged(args))), "", TRUE)

getTag(id) == Await("/tags/" \o id, NoOptions, "", TRUE)

createTag(args) ==
  Await("/tags", Options(Str("POST"), args, Undefined),
        "Tag created successfully: ", TRUE)

updateTag(id, args) ==
  Await("/tags/" \o id, Options(Str("PATCH"), Rest(args), Undefined),
        "Tag updated successfully: ", TRUE)

deleteTag(id) ==
  Await("/tags/" \o id, Options(Str("DELETE"), Undefined, Undefined),
        "Tag with ID " \o id \o " deleted successfully", FALSE)

-----------------------------------------------------------------------------
(* The call-tool handler's switch *)

\* a check that only looks whether arguments were given
MissingIdOnlyAbsent(args) == ~Truthy(args)

\* an id check that is skipped while no API key is configured
MissingIdAfterKey(args) ==
  config.apiKey # "" /\ (~Truthy(args) \/ TypeOf(args) # "object" \/ ~In("id", args))

\* !args || typeof args !== "object" || !("id" in args)
MissingId(args) == ~Truthy(args) \/ TypeOf(args) # "object" \/ ~In("id", args)

MissingIdError == Throw("Missing required parameter: id")

\* String(args.id) of an object with an own, non-callable toString
NoPrimitiveError == Throw("Cannot convert object to primitive value")

IdThrows(args) == ~MissingId(args) /\ ~CanString(Get(args, "id"))

\* an id that is encoded before it goes into the path
IdOfEncoded(args) == FormEncode(JsString(Get(args, "id")), 1)

\* String(args.id)
IdOf(args) == JsString(Get(args, "id"))

\* a default branch that forgets the name
UnknownToolNameless(name) == Throw("Unknown tool")

\* default: throw (new Error) "Unknown tool: ${name}"
UnknownTool(name) == Throw("Unknown tool: " \o name)

Dispatch(name, args) ==
  CASE name = "get_people" -> getPeople(Or(args, EmptyObject))
    [] name = "get_person" ->
         IF MissingId(args) THEN MissingIdError
         ELSE IF IdThrows(args) THEN NoPrimitiveError ELSE getPerson(IdOf(args))
    [] name = "create_person" -> createPerson(Or(args, EmptyObject))
    [] name = "update_person" ->
         IF MissingId(args) THEN MissingIdError
         ELSE IF IdThrows(args) THEN NoPrimitiveError ELSE updatePerson(IdOf(args), args)
    [] name = "delete_person" ->
         IF MissingId(args) THEN MissingIdError
         ELSE IF IdThrows(args) THEN NoPrimitiveError ELSE deletePerson(IdOf(args))
    [] name = "get_tasks" -> getTasks(Or(args, EmptyObject))
    [] name = "create_task" -> createTask(Or(args, EmptyObject))
    [] name = "get_organizations" -> getOrganizations(Or(args, EmptyObject))
    [] name = "get_organization" ->
         IF MissingId(args) THEN MissingIdError
         ELSE IF IdThrows(args) THEN NoPrimitiveError ELSE getOrganization(IdOf(args))
    [] name = "create_organization" -> createOrganization(Or(args, EmptyObject))
    [] name = "update_organization" ->
         IF MissingId(args) THEN MissingIdError
         ELSE IF IdThrows(args) THEN NoPrimitiveError
         ELSE updateOrganization(IdOf(args), args)
    [] name = "delete_organization" ->
         IF MissingId(args) THEN MissingIdError
         ELSE IF IdThrows(args) THEN NoPrimitiveError ELSE deleteOrganization(IdOf(args))
    [] name = "get_lists" -> getLists(Or(args, EmptyObject))
    [] name = "get_list" ->
         IF MissingId(args) THEN MissingIdError
         ELSE IF IdThrows(args) THEN NoPrimitiveError ELSE getList(IdOf(args))
    [] name = "create_list" -> createList(Or(args, EmptyObject))
    [] name = "update_list" ->
         IF MissingId(args) THEN MissingIdError
         ELSE IF IdThrows(args) THEN NoPrimitiveError ELSE updateList(IdOf(args), args)
    [] name = "delete_list" ->
         IF MissingId(args) THEN MissingIdError
         ELSE IF IdThrows(args) THEN NoPrimitiveError ELSE deleteList(IdOf(args))
    [] name = "get_tags" -> getTags(Or(args, EmptyObject))
    [] name = "get_tag" ->
         IF MissingId(args) THEN MissingIdError
         ELSE IF IdThrows(args) THEN NoPrimitiveError ELSE getTag(IdOf(args))
    [] name = "create_tag" -> createTag(Or(args, EmptyObject))
    [] name = "update_tag" ->
         IF MissingId(args) THEN MissingIdError
         ELSE IF IdThrows(args) THEN NoPrimitiveError ELSE updateTag(IdOf(args), args)
    [] name = "delete_tag" ->
         IF MissingId(args) THEN MissingIdError
         ELSE IF IdThrows(args) THEN NoPrimitiveError ELSE deleteTag(IdOf(args))
    [] OTHER -> UnknownTool(name)


-----------------------------------------------------------------------------
(* makeRequest up to its fetch, and the texts built from the response *)

DefaultBaseUrl == "https://api.rogerroger.io"

\* the constructor: the two environment variables, each undefined or a string
Config(envApiKey, envBaseUrl) ==
  [apiKey |-> Or(envApiKey, Str("")).s,
   baseUrl |-> Or(envBaseUrl, Str(DefaultBaseUrl)).s]

Request(url, method, headers, body) ==
  [url |-> url, method |-> method, headers |-> headers, body |-> body]

NoRequest == Request("", "", <<>>, Undefined)

Issuing(request) == [thrown |-> FALSE, error |-> Error(""), request |-> request]

Failing(message) == [thrown |-> TRUE, error |-> Error(message), request |-> NoRequest]

ApiKeyMessage == "ROGERROGER_API_KEY environment variable is required"

\* a URL that carries the API key as a query parameter
UrlOfKeyed(cfg, endpoint, params) ==
  IF Truthy(params)
  THEN cfg.baseUrl \o endpoint \o "?" \o SearchParamsToString(params.items, 1)
       \o "&api_key=" \o cfg.apiKey
  ELSE cfg.baseUrl \o endpoint \o "?api_key=" \o cfg.apiKey

\* `${this.config.baseUrl}${endpoint}`, then "?" and the query when params is truthy
UrlOf(cfg, endpoint, params) ==
  IF Truthy(params)
  THEN cfg.baseUrl \o endpoint \o "?" \o SearchParamsToString(params.items, 1)
  ELSE cfg.baseUrl \o endpoint

Headers(cfg) ==
  <<Member("X-API-KEY", cfg.apiKey), Member("Content-Type", "application/json")>>

\* a body left out when the object has no members
BodyOfNonEmpty(body) ==
  IF Truthy(body) /\ body.items # <<>> THEN Str(JsonStringify(body, 0, 0)) ELSE Undefined

\* body ? JSON.stringify(body) : undefined
BodyOf(body) == IF Truthy(body) THEN Str(JsonStringify(body, 0, 0)) ELSE Undefined

\* a check that takes only undefined for a missing key
ApiKeyMissingStrict(cfg) == Str(cfg.apiKey) = Undefined

\* !this.config.apiKey
ApiKeyMissing(cfg) == ~Truthy(Str(cfg.apiKey))

makeRequest(cfg, endpoint, options) ==
  IF ApiKeyMissing(cfg) THEN Failing(ApiKeyMessage)
  ELSE IF Truthy(options.params) /\ ~CanSearchParams(options.params)
  THEN Failing("Cannot convert object to primitive value")
  ELSE Issuing(Request(UrlOf(cfg, endpoint, options.params),
                       IF options.method.t = "undefined" THEN "GET" ELSE options.method.s,
                       Headers(cfg),
                       BodyOf(options.body)))

\* a success test that lets redirects through
OkBelow400(status) == 200 <= status /\ status < 400

\* response.ok
Ok(status) == 200 <= status /\ status <= 299

\* a makeRequest that takes a body it cannot parse for an empty payload
ReceivedLenient(status, body, parseMessage) ==
  IF ~Ok(status)
  THEN [thrown |-> TRUE, error |-> Error("HTTP " \o ToString(status) \o ": " \o body),
        data |-> Undefined, parsed |-> <<>>]
  ELSE [thrown |-> FALSE, error |-> Error(""),
        data |-> IF JsonParse(body).ok THEN JsonParse(body).v ELSE Null,
        parsed |-> <<body>>]

\* makeRequest after its fetch resolved: it throws, or returns the payload;
\* parsed lists the texts it gave to response.json()
Received(status, body, parseMessage) ==
  IF ~Ok(status)
  THEN [thrown |-> TRUE, error |-> Error("HTTP " \o ToString(status) \o ": " \o body),
        data |-> Undefined, parsed |-> <<>>]
  ELSE LET json == JsonParse(body)
       IN IF json.ok
          THEN [thrown |-> FALSE, error |-> Error(""), data |-> json.v,
                parsed |-> <<body>>]
          ELSE [thrown |-> TRUE, error |-> Error(parseMessage), data |-> Undefined,
                parsed |-> <<body>>]

\* a text that prints the payload on one line
TextOfCompact(plan, data) ==
  plan.prefix \o (IF plan.echo THEN JsonStringify(data, 0, 0) ELSE "")

\* the handler's text after its await returned data
TextOf(plan, data) ==
  plan.prefix \o (IF plan.echo THEN JsonStringify(data, 2, 0) ELSE "")

Envelope(text) == [content |-> <<[type |-> "text", text |-> text]>>]

\* the catch of the call-tool handler
Catch(error) ==
  Envelope("Error: " \o (IF error.isError THEN error.message ELSE "Unknown error"))

\* a catch that lets everything but HTTP errors through
CaughtOnlyHttp(error) == StartsWith(error.message, "HTTP ")

\* every exception thrown inside the try block reaches the catch
Caught(error) == TRUE


-----------------------------------------------------------------------------
(* Inputs: the environment, the host's invocations, the CRM's answers *)

MaxKeys == 2

EnvApiKeys == {Undefined, Str(""), Str("secret")}

EnvBaseUrls == {Undefined, Str(""), Str("http://localhost:8080")}

UnknownNames == {"", "get_peoples", "delete_task"}

Names == CatalogNames \cup UnknownNames

\* an object whose own toString is not callable: {"toString": 1}
BadObject == Obj(<<Member("toString", Num(1))>>)

ArgKeys == <<"id", "page", "itemsPerPage", "q", "status", "name">>

ValuesOf(k) ==
  CASE k = "id" -> {Str("t1"), Str("a b/c"), Str(""), Null, Num(7), BadObject}
    [] k = "page" -> {Num(0), Num(2), BadObject}
    [] k = "itemsPerPage" -> {Num(0), Num(10)}
    [] k = "q" -> {Str(""), Str("a b"), BadObject}
    [] k = "status" -> {Str("open")}
    [] OTHER -> {Str("Ada"), Num(5)}

RECURSIVE MemberLists(_, _)
\* the member lists over the keys from the i-th on, of at most left members
MemberLists(i, left) ==
  IF i > Len(ArgKeys) \/ left = 0 THEN {<<>>}
  ELSE MemberLists(i + 1, left)
       \cup {<<Member(ArgKeys[i], v)>> \o rest :
               v \in ValuesOf(ArgKeys[i]), rest \in MemberLists(i + 1, left - 1)}

ArgsInputs ==
  {Undefined, Null, Str("abc"), Num(0), Arr(<<>>)}
  \cup {Obj(members) : members \in MemberLists(1, MaxKeys)}

Statuses == {199, 200, 299, 300, 404}

Bodies == {"{\"id\":\"1\",\"name\":\"Ada\"}", "\"Error: x\"", "", "not found"}

ParseMessages == {"Unexpected end of JSON input"}

NetworkErrors == {"connect ECONNREFUSED"}

CallIds == {"c1"}

-----------------------------------------------------------------------------
(* State: config, the host's requests in flight, and the process.  A       *)
(* request is a list-tools or a call-tool request; requests, responses,    *)
(* parsed, caught, result and faults list what it has sent, received,      *)
(* parsed as JSON, caught, returned and let escape so far.  The process is *)
(* running, closing (its SIGINT handler awaits server.close()) or exited.  *)

Idle ==
  [pc |-> "idle", method |-> "", name |-> "", args |-> Undefined, plan |-> NoPlan,
   requests |-> <<>>, responses |-> <<>>, parsed |-> <<>>, caught |-> <<>>,
   result |-> <<>>, faults |-> <<>>]

Response(kind, status, body) == [kind |-> kind, status |-> status, body |-> body]

\* the handler returns its envelope
Returned(call, text) == [call EXCEPT !.pc = "returned", !.result = <<Envelope(text)>>]

\* an exception inside the try block
Thrown(call, error) ==
  IF Caught(error)
  THEN [call EXCEPT !.pc = "returned", !.caught = <<error>>, !.result = <<Catch(error)>>]
  ELSE [call EXCEPT !.pc = "returned", !.faults = <<error>>]

\* the process after run(): its transport open, no exit code yet
Running == [state |-> "running", closed |-> FALSE, exit |-> <<>>]

Init ==
  /\ config \in {Config(k, b) : k \in EnvApiKeys, b \in EnvBaseUrls}
  /\ calls = [c \in CallIds |-> Idle]
  /\ process = Running

\* the list-tools handler
ListTools(c) ==
  /\ process.state = "running"
  /\ calls[c].pc = "idle"
  /\ calls' = [calls EXCEPT ![c] =
       [Idle EXCEPT !.pc = "returned", !.method = "tools/list",
                    !.result = <<ListToolsResult>>]]
  /\ UNCHANGED <<config, process>>

\* the call-tool handler from its entry to its first await, or to its return
\* when it throws before
CallTool(c, name, args) ==
  /\ process.state = "running"
  /\ calls[c].pc = "idle"
  /\ LET plan == Dispatch(name, args)
         started == [Idle EXCEPT !.method = "tools/call", !.name = name, !.args = args]
         sent == makeRequest(config, plan.endpoint, plan.options)
     IN calls' = [calls EXCEPT ![c] =
          IF plan.thrown THEN Thrown(started, plan.error)
          ELSE IF sent.thrown THEN Thrown([started EXCEPT !.plan = plan], sent.error)
          ELSE [started EXCEPT !.pc = "fetching", !.plan = plan,
                               !.requests = <<sent.request>>]]
  /\ UNCHANGED <<config, process>>

\* a fetch that is given up after a while: the handler returns an error
\* although nothing came back from the network
FetchRejectOrTimeout(c, message) ==
  /\ process.state # "exited"
  /\ calls[c].pc = "fetching"
  /\ calls' = [calls EXCEPT ![c] = Thrown(@, Error("The operation was aborted"))]
  /\ UNCHANGED <<config, process>>

\* fetch rejects: the handler resumes in its catch
FetchReject(c, message) ==
  /\ process.state # "exited"
  /\ calls[c].pc = "fetching"
  /\ calls' = [calls EXCEPT ![c] =
       Thrown([@ EXCEPT !.responses = <<Response("rejected", 0, message)>>],
              Error(message))]
  /\ UNCHANGED <<config, process>>

\* the plan of another request in flight, if there is one, else the call's own
SharedPlan(call) ==
  IF \E c \in DOMAIN calls : calls[c].pc = "fetching" /\ calls[c].plan # call.plan
  THEN calls[CHOOSE c \in DOMAIN calls :
               calls[c].pc = "fetching" /\ calls[c].plan # call.plan].plan
  ELSE call.plan

\* a handler that builds its text from a field the latest invocation overwrote
ResumedShared(call, got) ==
  IF got.thrown
  THEN Thrown([call EXCEPT !.parsed = got.parsed], got.error)
  ELSE Returned([call EXCEPT !.parsed = got.parsed], TextOf(SharedPlan(call), got.data))

\* a handler that sends its request once more when makeRequest threw
ResumedRetrying(call, got) ==
  IF got.thrown /\ Len(call.requests) < 2
  THEN [call EXCEPT !.requests = @ \o @, !.parsed = got.parsed]
  ELSE IF got.thrown THEN Thrown([call EXCEPT !.parsed = got.parsed], got.error)
  ELSE Returned([call EXCEPT !.parsed = got.parsed], TextOf(call.plan, got.data))

\* the handler after its await: makeRequest threw, or returned the payload
Resumed(call, got) ==
  IF got.thrown
  THEN Thrown([call EXCEPT !.parsed = got.parsed], got.error)
  ELSE Returned([call EXCEPT !.parsed = got.parsed], TextOf(call.plan, got.data))

\* fetch resolves: the handler resumes after its await
FetchResolve(c, status, body, parseMessage) ==
  /\ process.state # "exited"
  /\ calls[c].pc = "fetching"
  /\ calls' = [calls EXCEPT ![c] =
       Resumed([@ EXCEPT !.responses = <<Response("response", status, body)>>],
               Received(status, body, parseMessage))]
  /\ UNCHANGED <<config, process>>

\* the answer goes to the host and the request is over
Deliver(c) ==
  /\ process.state = "running"
  /\ calls[c].pc = "returned"
  /\ calls' = [calls EXCEPT ![c] = Idle]
  /\ UNCHANGED <<config, process>>

Next ==
  \/ \E c \in CallIds : ListTools(c)
  \/ \E c \in CallIds :
       /\ calls[c].pc = "idle"
       /\ \E name \in Names, args \in ArgsInputs : CallTool(c, name, args)
  \/ \E c \in CallIds, message \in NetworkErrors : FetchReject(c, message)
  \/ \E c \in CallIds, status \in Statuses, body \in Bodies, parseMessage \in ParseMessages :
       FetchResolve(c, status, body, parseMessage)
  \/ \E c \in CallIds : Deliver(c)

\* the server handling one request at a time, never interrupted
Spec == Init /\ [][Next]_vars

-----------------------------------------------------------------------------
(* The server with two requests in flight and the interrupt signal, over    *)
(* fewer tools, arguments and answers                                       *)

Slots == {"c1", "c2"}

ConcurrentConfigs == {Config(k, Undefined) : k \in {Undefined, Str("secret")}}

ConcurrentNames == {"get_people", "create_person", "delete_tag", "get_peoples"}

ConcurrentArgs ==
  {Undefined, Obj(<<Member("page", Num(2))>>), Obj(<<Member("id", Str("t1"))>>)}

ConcurrentStatuses == {200, 404}

ConcurrentBodies == {"{\"id\":\"1\",\"name\":\"Ada\"}", ""}

InitConcurrent ==
  /\ config \in ConcurrentConfigs
  /\ calls = [c \in Slots |-> Idle]
  /\ process = Running

\* a SIGINT handler that exits without awaiting the close
SigintExitsAtOnce(p) == [p EXCEPT !.state = "exited", !.exit = <<0>>]

\* the SIGINT handler up to its await of this.server.close()
SigintHandler(p) == [p EXCEPT !.state = "closing"]

Sigint ==
  /\ process.state # "exited"
  /\ process' = SigintHandler(process)
  /\ UNCHANGED <<config, calls>>

\* server.close() has completed: process.exit(0)
Closed ==
  /\ process.state = "closing"
  /\ process' = [state |-> "exited", closed |-> TRUE, exit |-> <<0>>]
  /\ UNCHANGED <<config, calls>>

NextConcurrent ==
  \/ \E c \in Slots : ListTools(c)
  \/ \E c \in Slots :
       /\ calls[c].pc = "idle"
       /\ \E name \in ConcurrentNames, args \in ConcurrentArgs : CallTool(c, name, args)
  \/ \E c \in Slots, message \in NetworkErrors : FetchReject(c, message)
  \/ \E c \in Slots, status \in ConcurrentStatuses, body \in ConcurrentBodies,
          parseMessage \in ParseMessages :
       FetchResolve(c, status, body, parseMessage)
  \/ \E c \in Slots : Deliver(c)
  \/ Sigint
  \/ Closed

SpecConcurrent == InitConcurrent /\ [][NextConcurrent]_vars


-----------------------------------------------------------------------------
(* Properties *)

\* the call-tool requests whose handler has returned
Done == {c \in CallIds : calls[c].method = "tools/call" /\ calls[c].pc = "returned"}

\* the list-tools requests whose handler has returned
Listed == {c \in CallIds : calls[c].method = "tools/list" /\ calls[c].pc = "returned"}

\* the text of the envelope a call-tool request returned
Text(c) == calls[c].result[1].content[1].text

ErrorText(message) == "Error: " \o message

ListNames == {"get_people", "get_tasks", "get_organizations", "get_lists", "get_tags"}

GetNames == {"get_person", "get_organization", "get_list", "get_tag"}

CreateNames ==
  {"create_person", "create_task", "create_organization", "create_list", "create_tag"}

UpdateNames == {"update_person", "update_organization", "update_list", "update_tag"}

DeleteNames == {"delete_person", "delete_organization", "delete_list", "delete_tag"}

\* the identifier-requiring tools: every get-by-id, update and delete tool
IdNames == GetNames \cup UpdateNames \cup DeleteNames

\* arguments that are absent, null, not an object, or an object without id
LacksId(args) ==
  args.t # "object" \/ \A i \in 1..Len(args.items) : args.items[i].k # "id"

\* a value that String() and toString() cannot convert
Unconvertible(v) ==
  v.t = "object" /\ \E i \in 1..Len(v.items) : v.items[i].k = "toString"

\* the query arguments a list tool reads
QueryKeys(name) ==
  CASE name \in {"get_people", "get_organizations"} -> {"page", "itemsPerPage", "q"}
    [] name = "get_tasks" -> {"page", "itemsPerPage", "status"}
    [] name \in {"get_lists", "get_tags"} -> {"page", "itemsPerPage"}
    [] OTHER -> {}

\* malformed handler input: no id where one is required, or an argument the
\* handler cannot convert to a string
Malformed(name, args) ==
  \/ name \in IdNames /\ (LacksId(args) \/ Unconvertible(Get(args, "id")))
  \/ \E k \in QueryKeys(name) : Truthy(Get(args, k)) /\ Unconvertible(Get(args, k))

\* the response bodies that are JSON texts
JsonBodies == {"{\"id\":\"1\",\"name\":\"Ada\"}", "\"Error: x\""}

Replied(c) == calls[c].responses # <<>> /\ calls[c].responses[1].kind = "response"

Status(c) == calls[c].responses[1].status

Body(c) == calls[c].responses[1].body

\* C1: every call-tool invocation that completes returns an envelope whose
\* content is exactly one element of type "text", and no exception ever
\* escapes the handler.
C1_AlwaysOneTextEnvelope ==
  \A c \in CallIds :
    calls[c].method = "tools/call" =>
      /\ calls[c].faults = <<>>
      /\ calls[c].pc = "returned" =>
           /\ Len(calls[c].result) = 1
           /\ DOMAIN calls[c].result[1] = {"content"}
           /\ Len(calls[c].result[1].content) = 1
           /\ DOMAIN calls[c].result[1].content[1] = {"type", "text"}
           /\ calls[c].result[1].content[1].type = "text"
           /\ Text(c) \in STRING

\* C1 witness: create_person with a non-object argument, whose fetch failed,
\* has returned its envelope
C1_Witness ==
  \E c \in Done :
    /\ calls[c].name = "create_person"
    /\ calls[c].args = Str("abc")
    /\ calls[c].responses = <<Response("rejected", 0, "connect ECONNREFUSED")>>
    /\ calls[c].result = <<Envelope("Error: connect ECONNREFUSED")>>

\* the invocation failed: unknown tool, malformed input, missing API key,
\* transport error, non-2xx status or decode error
Failed(c) ==
  \/ calls[c].name \notin CatalogNames
  \/ Malformed(calls[c].name, calls[c].args)
  \/ config.apiKey = ""
  \/ calls[c].responses # <<>> /\ ~Replied(c)
  \/ Replied(c) /\ (Status(c) < 200 \/ Status(c) > 299 \/ Body(c) \notin JsonBodies)

Routed(name) ==
  LET plan == Dispatch(name, Undefined)
  IN ~(plan.thrown /\ plan.error.message = "Unknown tool: " \o name)

\* C3: the names of the catalog list-tools returns are pairwise distinct and
\* are exactly the names the dispatcher routes to a handler; any other name
\* reaches the unknown-tool branch.
C3_CatalogMatchesDispatcher ==
  /\ \A c \in Listed :
       LET listed == calls[c].result[1].tools
       IN /\ \A i, j \in 1..Len(listed) : listed[i].name = listed[j].name => i = j
          /\ {listed[i].name : i \in 1..Len(listed)} = {name \in Names : Routed(name)}
  /\ \A c \in Done :
       calls[c].name \in CatalogNames <=> Text(c) # ErrorText("Unknown tool: " \o calls[c].name)

\* C3 witness: list-tools has answered with 22 tools, delete_tag among them
C3_Witness ==
  \E c \in Listed :
    /\ Len(calls[c].result[1].tools) = 22
    /\ \E i \in 1..22 : calls[c].result[1].tools[i].name = "delete_tag"

\* C4: a tool name that is not in the catalog, with any arguments and any
\* Config, yields exactly "Error: Unknown tool: <name>" and no HTTP request.
C4_UnknownTool ==
  \A c \in Done :
    calls[c].name \notin CatalogNames =>
      /\ calls[c].result = <<Envelope("Error: Unknown tool: " \o calls[c].name)>>
      /\ calls[c].requests = <<>>

\* C4 witness: delete_task, which no catalog entry names, invoked with an id
\* and an API key
C4_Witness ==
  \E c \in Done :
    /\ calls[c].name = "delete_task"
    /\ ~LacksId(calls[c].args)
    /\ config.apiKey # ""
    /\ Text(c) = "Error: Unknown tool: delete_task"


\* the tools for which the dispatcher checks the presence of id
ChecksId ==
  {name \in Names : Dispatch(name, Undefined) = Throw("Missing required parameter: id")}

MissingIdEnvelope == Envelope("Error: Missing required parameter: id")

\* C5 (as amended): for each of the 12 identifier-requiring tools (get_,
\* update_, delete_ of person, organization, list, tag), arguments that are
\* absent, null, not an object, or an object without the key id yield exactly
\* "Error: Missing required parameter: id" and no HTTP request.
C5_MissingId ==
  /\ Cardinality(IdNames) = 12
  /\ IdNames = ChecksId
  /\ \A c \in Done :
       calls[c].name \in IdNames /\ LacksId(calls[c].args) =>
         calls[c].result = <<MissingIdEnvelope>> /\ calls[c].requests = <<>>

\* C5 as stated: the same, of 13 identifier-requiring tools
C5_Original ==
  \A c \in Done :
    calls[c].name \in IdNames /\ LacksId(calls[c].args) =>
      /\ calls[c].result = <<MissingIdEnvelope>>
      /\ calls[c].requests = <<>>
      /\ Cardinality(IdNames) = 13

\* C5 witness: update_list with arguments that are not an object, under a
\* config with an API key
C5_Witness ==
  \E c \in Done :
    /\ calls[c].name = "update_list"
    /\ calls[c].args = Str("abc")
    /\ config.apiKey # ""
    /\ Text(c) = "Error: Missing required parameter: id"

ApiKeyEnvelope == Envelope("Error: ROGERROGER_API_KEY environment variable is required")

\* the handler throws on its arguments before it calls makeRequest
StoppedOnArguments(name, args) ==
  \/ name \in IdNames /\ (LacksId(args) \/ Unconvertible(Get(args, "id")))
  \/ /\ name \in ListNames
     /\ \E k \in {"page", "itemsPerPage"} :
          Truthy(Get(args, k)) /\ Unconvertible(Get(args, k))

\* C6 (as amended): given Config.apiKey = "", every invocation of a catalog
\* tool that gets past the handler's argument handling yields exactly the
\* API-key error, and no invocation at all triggers a network call.
C6_MissingApiKey ==
  config.apiKey = "" =>
    \A c \in CallIds :
      /\ calls[c].requests = <<>>
      /\ c \in Done /\ calls[c].name \in CatalogNames
           /\ ~StoppedOnArguments(calls[c].name, calls[c].args) =>
           calls[c].result = <<ApiKeyEnvelope>>

\* C6 as stated: given Config.apiKey = "", any invocation of a (network-
\* backed) catalog tool yields the API-key error and no network call
C6_Original ==
  config.apiKey = "" =>
    \A c \in Done :
      calls[c].name \in CatalogNames =>
        calls[c].result = <<ApiKeyEnvelope>> /\ calls[c].requests = <<>>

\* C6 witness: create_task without arguments under an empty API key
C6_Witness ==
  \E c \in Done :
    /\ config.apiKey = ""
    /\ calls[c].name = "create_task"
    /\ calls[c].args = Undefined
    /\ Text(c) = "Error: ROGERROGER_API_KEY environment variable is required"

\* the path prefix of a tool's resource
PrefixOf(name) ==
  CASE name \in {"get_people", "get_person", "create_person", "update_person",
                 "delete_person"} -> "/people"
    [] name \in {"get_organizations", "get_organization", "create_organization",
                 "update_organization", "delete_organization"} -> "/organizations"
    [] name \in {"get_lists", "get_list", "create_list", "update_list", "delete_list"} ->
         "/segments"
    [] name \in {"get_tags", "get_tag", "create_tag", "update_tag", "delete_tag"} -> "/tags"
    [] name \in {"get_tasks", "create_task"} -> "/tasks"

\* the display name of a delete tool's resource
DeletedResource(name) ==
  CASE name = "delete_person" -> "Person"
    [] name = "delete_organization" -> "Organization"
    [] name = "delete_list" -> "List"
    [] name = "delete_tag" -> "Tag"

\* the method the claim fixes for a tool
MethodOf(name) ==
  CASE name \in ListNames \cup GetNames -> "GET"
    [] name \in CreateNames -> "POST"
    [] name \in {"update_person", "update_organization"} -> "PUT"
    [] name \in {"update_list", "update_tag"} -> "PATCH"
    [] name \in DeleteNames -> "DELETE"

\* the path the claim fixes for a tool and its arguments
PathOf(name, args) ==
  IF name \in IdNames
  THEN PrefixOf(name) \o "/" \o JsString(Get(args, "id"))
  ELSE PrefixOf(name)

\* C7: a delete tool invoked with an id and an API key issues DELETE
\* <prefix>/<id> and, whenever the status is in 200-299, yields exactly
\* "<Resource> with ID <id> deleted successfully" whatever the response body,
\* which is not parsed.
C7_DeleteIgnoresBody ==
  \A c \in Done :
    /\ calls[c].name \in DeleteNames
    /\ Get(calls[c].args, "id").t = "string" /\ Truthy(Get(calls[c].args, "id"))
    /\ config.apiKey # ""
    /\ Replied(c) /\ 200 <= Status(c) /\ Status(c) <= 299
    => /\ Len(calls[c].requests) = 1
       /\ calls[c].requests[1].method = "DELETE"
       /\ calls[c].requests[1].url = config.baseUrl \o PathOf(calls[c].name, calls[c].args)
       /\ calls[c].result =
            <<Envelope(DeletedResource(calls[c].name) \o " with ID "
                       \o JsString(Get(calls[c].args, "id")) \o " deleted successfully")>>

\* C8: when the status is outside 200-299, whatever the tool, the text is
\* exactly "Error: HTTP <status>: <response body text>" and the body is never
\* parsed as JSON.
C8_HttpError ==
  \A c \in Done :
    Replied(c) /\ (Status(c) < 200 \/ Status(c) > 299) =>
      /\ calls[c].result = <<Envelope("Error: HTTP " \o ToString(Status(c)) \o ": " \o Body(c))>>
      /\ calls[c].parsed = <<>>

\* C8 witness: get_person of t1 answered 404 "not found"
C8_Witness ==
  \E c \in Done :
    /\ calls[c].name = "get_person"
    /\ Get(calls[c].args, "id") = Str("t1")
    /\ Replied(c) /\ Status(c) = 404 /\ Body(c) = "not found"
    /\ Text(c) = "Error: HTTP 404: not found"

\* C9: each tool issues the method and the path fixed by its resource and
\* verb: list GET <prefix>, get-by-id GET <prefix>/<id>, create POST <prefix>,
\* update PUT <prefix>/<id> (people, organizations) or PATCH <prefix>/<id>
\* (lists, tags), delete DELETE <prefix>/<id>; tasks have only list and create.
C9_MethodAndPath ==
  \A c \in CallIds :
    calls[c].requests # <<>> =>
      LET request == calls[c].requests[1]
          target == config.baseUrl \o PathOf(calls[c].name, calls[c].args)
      IN /\ calls[c].name \in CatalogNames
         /\ request.method = MethodOf(calls[c].name)
         /\ calls[c].plan.endpoint = PathOf(calls[c].name, calls[c].args)
         /\ request.url = target \/ StartsWith(request.url, target \o "?")
         /\ PrefixOf(calls[c].name) = "/tasks" => request.method \in {"GET", "POST"}

\* C9 witness: update_list of t1 has issued PATCH /segments/t1
C9_Witness ==
  \E c \in CallIds :
    /\ calls[c].name = "update_list"
    /\ calls[c].requests # <<>>
    /\ calls[c].requests[1].method = "PATCH"
    /\ calls[c].requests[1].url = "https://api.rogerroger.io/segments/t1"

\* C10: the request body of every update tool is exactly the forwarded
\* arguments with the id field removed and every other field unchanged; the
\* id appears only in the path.
C10_UpdateBodyOmitsId ==
  \A c \in CallIds :
    calls[c].name \in UpdateNames /\ calls[c].requests # <<>> =>
      LET request == calls[c].requests[1]
          given == calls[c].args.items
          sent == JsonParse(request.body.s)
      IN /\ request.body.t = "string"
         /\ sent.ok /\ sent.v.t = "object"
         /\ \A i \in 1..Len(sent.v.items) : sent.v.items[i].k # "id"
         /\ \A i \in 1..Len(given) :
              given[i].k # "id" => \E j \in 1..Len(sent.v.items) : sent.v.items[j] = given[i]
         /\ Len(sent.v.items) = Len(given) - 1
         /\ request.url = config.baseUrl \o PrefixOf(calls[c].name) \o "/"
                            \o JsString(Get(calls[c].args, "id"))

\* C10 witness: update_person of {id: "t1", name: "Ada"} has sent {"name":"Ada"}
C10_Witness ==
  \E c \in CallIds :
    /\ calls[c].name = "update_person"
    /\ calls[c].args = Obj(<<Member("id", Str("t1")), Member("name", Str("Ada"))>>)
    /\ calls[c].requests # <<>>
    /\ calls[c].requests[1].body = Str("{\"name\":\"Ada\"}")
    /\ calls[c].requests[1].url = "https://api.rogerroger.io/people/t1"

\* the display name of a create tool's resource
CreatedResource(name) ==
  CASE name = "create_person" -> "Person"
    [] name = "create_organization" -> "Organization"
    [] name = "create_list" -> "List"
    [] name = "create_tag" -> "Tag"
    [] name = "create_task" -> "Task"

\* JSON.stringify(payload, null, 2) of the payloads the JSON bodies hold
PrettyOf(body) ==
  CASE body = "{\"id\":\"1\",\"name\":\"Ada\"}" ->
         "{\n  \"id\": \"1\",\n  \"name\": \"Ada\"\n}"
    [] body = "\"Error: x\"" -> "\"Error: x\""

\* the invocation got a 2xx response whose body is JSON
Succeeded(c) ==
  Replied(c) /\ 200 <= Status(c) /\ Status(c) <= 299 /\ Body(c) \in JsonBodies

\* the arguments a handler is given: args || {}
Forwarded(args) == IF Truthy(args) THEN args ELSE EmptyObject

\* C11: a successful invocation of a create tool has issued one POST to the
\* collection path, with a body that is the JSON of the forwarded arguments,
\* and yields "<Resource> created successfully: " followed by the 2-space
\* pretty-printed JSON of the response payload.
C11_CreateTextAndBody ==
  \A c \in Done :
    calls[c].name \in CreateNames /\ Succeeded(c) =>
      /\ Len(calls[c].requests) = 1
      /\ calls[c].requests[1].method = "POST"
      /\ calls[c].requests[1].url = config.baseUrl \o PrefixOf(calls[c].name)
      /\ calls[c].requests[1].body.t = "string"
      /\ JsonParse(calls[c].requests[1].body.s) = [ok |-> TRUE, v |-> Forwarded(calls[c].args)]
      /\ Text(c) = CreatedResource(calls[c].name) \o " created successfully: "
                     \o PrettyOf(Body(c))

\* C11 witness: create_person of {name: "Ada"} answered 200 with Ada's record
C11_Witness ==
  \E c \in Done :
    /\ calls[c].name = "create_person"
    /\ calls[c].args = Obj(<<Member("name", Str("Ada"))>>)
    /\ calls[c].requests = <<Request(config.baseUrl \o "/people", "POST", Headers(config),
                                     Str("{\"name\":\"Ada\"}"))>>
    /\ Status(c) = 200
    /\ Text(c) = "Person created successfully: {\n  \"id\": \"1\",\n  \"name\": \"Ada\"\n}"

RECURSIVE IndexOf(_, _, _)
\* the first index from i on at which s holds the character c, or 0
IndexOf(s, c, i) ==
  IF i > Len(s) THEN 0 ELSE IF Ch(s, i) = c THEN i ELSE IndexOf(s, c, i + 1)

HasQuestionMark(url) == IndexOf(url, "?", 1) > 0

\* what follows the first question mark of a URL
QueryOf(url) ==
  IF HasQuestionMark(url) THEN SubSeq(url, IndexOf(url, "?", 1) + 1, Len(url)) ELSE ""

\* name=value split at its equals sign
Pair(text) ==
  [k |-> SubSeq(text, 1, IndexOf(text, "=", 1) - 1),
   v |-> SubSeq(text, IndexOf(text, "=", 1) + 1, Len(text))]

RECURSIVE Pairs(_)
\* the name=value pairs of a query string, split at its ampersands
Pairs(query) ==
  IF query = "" THEN <<>>
  ELSE IF IndexOf(query, "&", 1) = 0 THEN <<Pair(query)>>
  ELSE <<Pair(SubSeq(query, 1, IndexOf(query, "&", 1) - 1))>>
       \o Pairs(SubSeq(query, IndexOf(query, "&", 1) + 1, Len(query)))

\* a zero, empty or absent argument
Omitted(v) == v \in {Undefined, Null, Num(0), Str("")}

\* the string form of an argument as the query string carries it
QueryValue(v) ==
  CASE v = Num(2) -> "2"
    [] v = Num(10) -> "10"
    [] v = Str("a b") -> "a+b"
    [] v = Str("open") -> "open"
    [] OTHER -> FormEncode(JsString(v), 1)

C13_QuestionMarkOnlyWithQuery ==
  \A c \in CallIds :
    calls[c].requests # <<>> =>
      LET url == calls[c].requests[1].url
          target == config.baseUrl \o PathOf(calls[c].name, calls[c].args)
      IN /\ StartsWith(url, target)
         /\ HasQuestionMark(url) => QueryOf(url) # ""
         /\ calls[c].name \notin ListNames => url = target
         /\ calls[c].name \in ListNames /\ QueryOf(url) = "" => url = target

RECURSIVE Contains(_, _, _)
\* part occurs in s at the index i or later
Contains(s, part, i) ==
  /\ i + Len(part) - 1 <= Len(s)
  /\ SubSeq(s, i, i + Len(part) - 1) = part \/ Contains(s, part, i + 1)

\* C15: every request carries the headers X-API-KEY: <Config.apiKey> and
\* Content-Type: application/json and no other, and the API key occurs
\* nowhere in the URL the server builds.
C15_KeyOnlyInHeader ==
  \A c \in CallIds :
    \A i \in 1..Len(calls[c].requests) :
      /\ config.apiKey # ""
      /\ Len(calls[c].requests[i].headers) = 2
      /\ \E h \in 1..2 :
           calls[c].requests[i].headers[h] = [k |-> "X-API-KEY", v |-> config.apiKey]
      /\ \E h \in 1..2 :
           calls[c].requests[i].headers[h] = [k |-> "Content-Type", v |-> "application/json"]
      /\ ~Contains(calls[c].requests[i].url, config.apiKey, 1)

\* C15 witness: get_people of {q: "a b"} under the key "secret" has issued a
\* request with a query and the key in its header
C15_Witness ==
  \E c \in CallIds :
    /\ config.apiKey = "secret"
    /\ calls[c].requests # <<>>
    /\ calls[c].requests[1].url = config.baseUrl \o "/people?q=a+b"
    /\ calls[c].requests[1].headers[1] = [k |-> "X-API-KEY", v |-> "secret"]

\* C16: the URL of every issued request has the scheme https, for every
\* reachable Config and every invocation.
C16_AlwaysHttps ==
  \A c \in CallIds :
    \A i \in 1..Len(calls[c].requests) :
      StartsWith(calls[c].requests[i].url, "https://")

\* the call-tool invocations of the table, in flight or returned
Invoked == {c \in DOMAIN calls : calls[c].method = "tools/call"}

\* C14: two invocations of the same tool with the same arguments, whatever
\* was invoked before or between them, derive the same requests: the same
\* method and the same URL (path and query string); no query parameter is
\* left over from another call.
C14_SameRequestEachTime ==
  \A c, d \in Invoked :
    calls[c].name = calls[d].name /\ calls[c].args = calls[d].args =>
      /\ Len(calls[c].requests) = Len(calls[d].requests)
      /\ \A i \in 1..Len(calls[c].requests) :
           /\ calls[c].requests[i].method = calls[d].requests[i].method
           /\ calls[c].requests[i].url = calls[d].requests[i].url

\* C14 witness: get_people of {page: 2} has been answered and returned, and a
\* second get_people of {page: 2} has issued the same GET /people?page=2
C14_Witness ==
  /\ calls["c1"].pc = "returned" /\ calls["c1"].responses # <<>>
  /\ calls["c2"].pc = "fetching"
  /\ \A c \in Slots :
       /\ calls[c].name = "get_people"
       /\ calls[c].args = Obj(<<Member("page", Num(2))>>)
       /\ calls[c].requests[1].method = "GET"
       /\ calls[c].requests[1].url = "https://api.rogerroger.io/people?page=2"

\* the invocation fails validation: unknown tool, missing id, missing API key
FailsValidation(c) ==
  \/ calls[c].name \notin CatalogNames
  \/ calls[c].name \in IdNames /\ LacksId(calls[c].args)
  \/ config.apiKey = ""

\* C17: an invocation issues at most one HTTP request over its whole
\* lifetime: once its fetch has rejected or resolved, whatever the status and
\* the body, the handler returns without sending again, and an invocation
\* that fails validation issues none.
C17_AtMostOneRequest ==
  \A c \in CallIds :
    calls[c].method = "tools/call" =>
      /\ Len(calls[c].requests) <= 1
      /\ calls[c].pc = "fetching" => Len(calls[c].requests) = 1 /\ calls[c].responses = <<>>
      /\ calls[c].responses # <<>> =>
           /\ calls[c].pc = "returned"
           /\ Len(calls[c].requests) = 1
           /\ Len(calls[c].responses) = 1
      /\ FailsValidation(c) => calls[c].requests = <<>> /\ calls[c].pc = "returned"

\* C17 witness: get_person of t1 was answered 200 with a body that is not
\* JSON and has returned the decode error after its one request
C17_Witness ==
  \E c \in Done :
    /\ calls[c].name = "get_person"
    /\ Replied(c) /\ Status(c) = 200 /\ Body(c) = "not found"
    /\ Text(c) = "Error: Unexpected end of JSON input"
    /\ Len(calls[c].requests) = 1

\* in the table t, invocations of the same tool with the same arguments have
\* sent the same requests, and those that got the same answer have returned
\* the same envelope
Determined(t) ==
  \A c, d \in {e \in DOMAIN t : t[e].method = "tools/call"} :
    t[c].name = t[d].name /\ t[c].args = t[d].args =>
      /\ t[c].requests = t[d].requests
      /\ t[c].pc = "returned" /\ t[d].pc = "returned" /\ t[c].responses = t[d].responses
           => t[c].result = t[d].result

\* C18: invocations in flight together are independent.  Every step of one
\* invocation (its start, its resumption after the network call, its
\* delivery) leaves Config and every other invocation as they were, and in
\* every interleaving an invocation's request and envelope are fixed by its
\* own tool, arguments and HTTP response, and by Config.
C18_Independent ==
  [][/\ config' = config
     /\ \A c \in Slots :
          calls'[c] # calls[c] => \A d \in Slots \ {c} : calls'[d] = calls[d]
     /\ Determined(calls')]_vars

\* C18 witness: create_person is still suspended at its fetch while
\* delete_tag of t1, in flight with it, got its 404 and returned
C18_Witness ==
  \E c, d \in Slots :
    /\ calls[c].name = "create_person" /\ calls[c].pc = "fetching"
    /\ calls[c].requests[1].url = "https://api.rogerroger.io/people"
    /\ calls[d].name = "delete_tag" /\ calls[d].pc = "returned"
    /\ calls[d].requests # <<>>
    /\ calls[d].requests[1].url = "https://api.rogerroger.io/tags/t1"
    /\ calls[d].result = <<Envelope("Error: HTTP 404: ")>>

\* C19: the process exits only through its SIGINT handler: the signal only
\* starts the close of the transport, the exit follows once that close has
\* completed, and its code is 0.  No step of an invocation, failing or not,
\* changes the state of the process.
C19_ExitOnlyOnSigint ==
  [][/\ calls' # calls => process' = process
     /\ process.state = "running" /\ process' # process =>
          process' = [state |-> "closing", closed |-> FALSE, exit |-> <<>>]
     /\ process.state # "exited" /\ process'.state = "exited" =>
          /\ process.state = "closing"
          /\ process'.closed
          /\ process'.exit = <<0>>]_vars

\* C19 witness: after an invocation failed with an HTTP error and another for
\* the lack of an id, SIGINT was received, the close completed and the
\* process exited with code 0
C19_Witness ==
  /\ process = [state |-> "exited", closed |-> TRUE, exit |-> <<0>>]
  /\ \E c, d \in Slots :
       /\ calls[c].name = "get_people" /\ calls[c].pc = "returned"
       /\ calls[c].result = <<Envelope("Error: HTTP 404: ")>>
       /\ calls[d].name = "delete_tag" /\ calls[d].pc = "returned"
       /\ calls[d].result = <<MissingIdEnvelope>>

\* C20: list-tools answers the same full catalog in every state, whatever
\* Config holds (an empty API key included) and whatever was invoked before
\* or is in flight, and answering it sends no HTTP request and changes
\* neither Config, nor the process, nor any other request.
C20_ListToolsPure ==
  [][\A c \in Slots :
       calls'[c].method = "tools/list" =>
         /\ calls'[c].result = <<[tools |-> Catalog]>>
         /\ Len(calls'[c].result[1].tools) = 22
         /\ calls'[c].requests = <<>>
         /\ calls[c].pc = "idle" =>
              /\ config' = config
              /\ process' = process
              /\ \A d \in Slots \ {c} : calls'[d] = calls[d]]_vars

\* C20 witness: under an empty API key create_person has failed for the lack
\* of the key, and list-tools has answered the 22 tools
C20_Witness ==
  \E c, d \in Slots :
    /\ config.apiKey = ""
    /\ calls[d].name = "create_person" /\ calls[d].result = <<ApiKeyEnvelope>>
    /\ calls[c].method = "tools/list" /\ calls[c].pc = "returned"
    /\ Len(calls[c].result[1].tools) = 22
    /\ calls[c].result[1].tools[22].name = "delete_tag"

\* in the table t, the invocation c stops before its network call: its
\* validation fails (unknown tool, missing id, missing API key) or its
\* arguments cannot be converted
StopsEarly(t, c) ==
  \/ t[c].name \notin CatalogNames
  \/ Malformed(t[c].name, t[c].args)
  \/ config.apiKey = ""

\* in the table t, an invocation has returned if and only if it stopped
\* before its network call or that call has completed, and then with
\* exactly one envelope
ReturnsIffSettled(t) ==
  \A c \in {e \in DOMAIN t : t[e].method = "tools/call"} :
    /\ t[c].pc = "returned" <=> (StopsEarly(t, c) \/ t[c].responses # <<>>)
    /\ StopsEarly(t, c) => t[c].requests = <<>>
    /\ t[c].pc = "returned" =>
         Len(t[c].result) = 1 /\ Len(t[c].result[1].content) = 1
    /\ t[c].pc # "returned" => t[c].pc = "fetching" /\ t[c].result = <<>>

\* C21: an invocation returns an envelope if and only if its validation fails
\* or its HTTP call completes.  The step in which the call completes (2xx,
\* non-2xx, rejection, undecodable body) is the step in which the handler
\* returns its one envelope; as long as the call has not completed the
\* invocation stays suspended, no other step makes it return, and meanwhile
\* another invocation can be started and served.
C21_ReturnsIffSettled ==
  [][/\ ReturnsIffSettled(calls')
     /\ \A c \in Slots :
          calls[c].pc = "fetching" /\ calls'[c] # calls[c] =>
            /\ calls'[c].pc = "returned"
            /\ Len(calls'[c].responses) = 1
            /\ calls'[c].requests = calls[c].requests
     /\ \A c, d \in Slots :
          calls[c].pc = "fetching" /\ calls[d].pc = "idle" /\ process.state = "running" =>
            ENABLED CallTool(d, "get_people", Undefined)]_vars

\* C21 witness: get_people is suspended at a network call that has not
\* completed, without envelope, while create_person, invoked meanwhile, was
\* answered 200 and has returned
C21_Witness ==
  \E c, d \in Slots :
    /\ calls[c].name = "get_people" /\ calls[c].pc = "fetching"
    /\ calls[c].requests # <<>> /\ calls[c].responses = <<>> /\ calls[c].result = <<>>
    /\ calls[d].name = "create_person" /\ calls[d].pc = "returned"
    /\ calls[d].responses = <<Response("response", 200, "{\"id\":\"1\",\"name\":\"Ada\"}")>>
    /\ Len(calls[d].result) = 1

\* C22: when the status is in 200-299 and the body is not valid JSON, the
\* invocation yields "Error: " followed by the parse failure message and no
\* success text, for every tool whose response is parsed.
C22_DecodeError ==
  \A c \in Done :
    Replied(c) /\ 200 <= Status(c) /\ Status(c) <= 299 /\ Body(c) \notin JsonBodies
      /\ calls[c].parsed # <<>> =>
        /\ calls[c].parsed = <<Body(c)>>
        /\ \E message \in ParseMessages :
             /\ calls[c].caught = <<Error(message)>>
             /\ calls[c].result = <<Envelope("Error: " \o message)>>

\* C22 witness: create_tag answered 299 with the body "not found" yields the
\* parse failure message
C22_Witness ==
  \E c \in Done :
    /\ calls[c].name = "create_tag"
    /\ Replied(c) /\ Status(c) = 299 /\ Body(c) = "not found"
    /\ calls[c].parsed = <<"not found">>
    /\ Text(c) = "Error: Unexpected end of JSON input"

\* the arguments the catalog marks required for a tool, id aside
RequiredBesidesId(name) ==
  Catalog[CHOOSE i \in 1..Len(Catalog) : Catalog[i].name = name].required \ {"id"}

\* an argument the handler turns into a string has no string form
NoStringForm(name, args) ==
  \/ name \in IdNames /\ Unconvertible(Get(args, "id"))
  \/ \E k \in QueryKeys(name) : Truthy(Get(args, k)) /\ Unconvertible(Get(args, k))

\* the members of the arguments other than id
WithoutId(args) ==
  [t |-> "object", n |-> 0, s |-> "",
   items |-> SelectSeq(args.items, LAMBDA m : m.k # "id")]

\* the catalog requires, id aside: title of create_task, create_tag and
\* update_tag, title and icon of create_list and update_list
RequiredAsClaimed ==
  /\ {name \in CatalogNames : RequiredBesidesId(name) # {}}
       = {"create_task", "create_tag", "create_list", "update_list", "update_tag"}
  /\ \A name \in {"create_task", "create_tag", "update_tag"} :
       RequiredBesidesId(name) = {"title"}
  /\ \A name \in {"create_list", "update_list"} :
       RequiredBesidesId(name) = {"title", "icon"}

\* C23 (as amended): nothing but the presence of id is validated.  With an
\* API key, an invocation of a catalog tool that has its id where one is
\* required issues its HTTP request also when it omits title or icon or gives
\* an argument of the wrong type, and create and update bodies hold the
\* arguments as given, unless a value the handler turns into a string (id,
\* page, itemsPerPage, q, status) has no string form.
C23_NoOtherValidation ==
  /\ RequiredAsClaimed
  /\ \A c \in CallIds :
       /\ calls[c].method = "tools/call"
       /\ calls[c].name \in CatalogNames
       /\ config.apiKey # ""
       /\ ~(calls[c].name \in IdNames /\ LacksId(calls[c].args))
       /\ ~NoStringForm(calls[c].name, calls[c].args)
       => /\ Len(calls[c].requests) = 1
          /\ calls[c].name \in CreateNames =>
               JsonParse(calls[c].requests[1].body.s)
                 = [ok |-> TRUE, v |-> Forwarded(calls[c].args)]
          /\ calls[c].name \in UpdateNames =>
               JsonParse(calls[c].requests[1].body.s)
                 = [ok |-> TRUE, v |-> WithoutId(calls[c].args)]

\* C23 as stated: the same, whatever the wrong-typed value
C23_Original ==
  \A c \in CallIds :
    /\ calls[c].method = "tools/call"
    /\ calls[c].name \in CatalogNames
    /\ config.apiKey # ""
    /\ ~(calls[c].name \in IdNames /\ LacksId(calls[c].args))
    => Len(calls[c].requests) = 1

\* C23 witness: create_list without title and icon and with a number for a
\* name has issued POST /segments with the arguments as given
C23_Witness ==
  \E c \in CallIds :
    /\ calls[c].name = "create_list"
    /\ calls[c].args = Obj(<<Member("name", Num(5))>>)
    /\ calls[c].requests # <<>>
    /\ calls[c].requests[1].method = "POST"
    /\ calls[c].requests[1].url = "https://api.rogerroger.io/segments"
    /\ calls[c].requests[1].body = Str("{\"name\":5}")

\* C24: a GET or DELETE request never carries a body; every POST, PUT and
\* PATCH request carries a body that is a JSON text, "{}" when a create tool
\* is invoked without arguments or an update tool with its id only.
C24_BodyByMethod ==
  \A c \in CallIds :
    \A i \in 1..Len(calls[c].requests) :
      LET request == calls[c].requests[i]
      IN /\ request.method \in {"GET", "DELETE", "POST", "PUT", "PATCH"}
         /\ request.method \in {"GET", "DELETE"} => request.body = Undefined
         /\ request.method \in {"POST", "PUT", "PATCH"} =>
              /\ request.body.t = "string"
              /\ JsonParse(request.body.s).ok
              /\ calls[c].name \in CreateNames \cup UpdateNames
         /\ calls[c].name \in CreateNames \cup UpdateNames =>
              request.method \in {"POST", "PUT", "PATCH"}
         /\ \/ calls[c].name \in CreateNames /\ calls[c].args \in {Undefined, EmptyObject}
            \/ /\ calls[c].name \in UpdateNames
               /\ Len(calls[c].args.items) = 1
            => request.body = Str("{}")

\* C24 witness: update_tag of {id: "t1"} has issued PATCH /tags/t1 with the
\* body {}
C24_Witness ==
  \E c \in CallIds :
    /\ calls[c].name = "update_tag"
    /\ calls[c].args = Obj(<<Member("id", Str("t1"))>>)
    /\ calls[c].requests # <<>>
    /\ calls[c].requests[1].method = "PATCH"
    /\ calls[c].requests[1].url = "https://api.rogerroger.io/tags/t1"
    /\ calls[c].requests[1].body = Str("{}")

UnknownToolEnvelope(name) == Envelope("Error: Unknown tool: " \o name)

\* the pagination argument of a list invocation that has no string form
BadPage(name, args) ==
  IF name \in ListNames /\ Truthy(Get(args, "page")) /\ Unconvertible(Get(args, "page"))
  THEN <<"page">>
  ELSE IF name \in ListNames /\ Truthy(Get(args, "itemsPerPage"))
          /\ Unconvertible(Get(args, "itemsPerPage"))
  THEN <<"itemsPerPage">>
  ELSE <<>>

\* the q or status argument of a list invocation has no string form
BadFilter(name, args) ==
  \E k \in QueryKeys(name) \ {"page", "itemsPerPage"} :
    Truthy(Get(args, k)) /\ Unconvertible(Get(args, k))

NoStringFormEnvelope == Envelope("Error: Cannot convert object to primitive value")

\* C25 (as amended): failures are checked in a fixed order and the first one
\* decides the error: unknown tool, then missing id, then the string
\* conversion of id or of page and itemsPerPage, then the missing API key,
\* then the string conversion of q or status, then the HTTP outcome.  An
\* identifier-requiring tool without id under an empty API key yields the
\* missing-id error.
C25_FirstFailureWins ==
  \A c \in Done :
    LET name == calls[c].name
        args == calls[c].args
    IN IF name \notin CatalogNames
       THEN calls[c].result = <<UnknownToolEnvelope(name)>>
       ELSE IF name \in IdNames /\ LacksId(args)
       THEN calls[c].result = <<MissingIdEnvelope>>
       ELSE IF name \in IdNames /\ Unconvertible(Get(args, "id"))
       THEN calls[c].result = <<NoStringFormEnvelope>>
       ELSE IF BadPage(name, args) # <<>>
       THEN calls[c].result
              = <<Envelope("Error: args." \o BadPage(name, args)[1]
                           \o ".toString is not a function")>>
       ELSE IF config.apiKey = ""
       THEN calls[c].result = <<ApiKeyEnvelope>>
       ELSE IF BadFilter(name, args)
       THEN calls[c].result = <<NoStringFormEnvelope>>
       ELSE /\ Len(calls[c].requests) = 1
            /\ Len(calls[c].responses) = 1
            /\ calls[c].result \notin
                 {<<UnknownToolEnvelope(name)>>, <<MissingIdEnvelope>>, <<ApiKeyEnvelope>>}

\* C25 as stated: unknown tool, then missing id, then missing API key, then
\* the HTTP outcome
C25_Original ==
  \A c \in Done :
    IF calls[c].name \notin CatalogNames
    THEN calls[c].result = <<UnknownToolEnvelope(calls[c].name)>>
    ELSE IF calls[c].name \in IdNames /\ LacksId(calls[c].args)
    THEN calls[c].result = <<MissingIdEnvelope>>
    ELSE IF config.apiKey = ""
    THEN calls[c].result = <<ApiKeyEnvelope>>
    ELSE Len(calls[c].requests) = 1 /\ Len(calls[c].responses) = 1

\* C25 witness: get_person without id under an empty API key yields the
\* missing-id error
C25_Witness ==
  \E c \in Done :
    /\ config.apiKey = ""
    /\ calls[c].name = "get_person"
    /\ calls[c].args = Obj(<<Member("name", Str("Ada"))>>)
    /\ Text(c) = "Error: Missing required parameter: id"

\* the arguments are a non-null object that contains the key id
HasIdKey(args) ==
  args.t = "object" /\ \E i \in 1..Len(args.items) : args.items[i].k = "id"

\* the string form of the id values: null gives "null", 7 gives "7", a string
\* is taken as it is
IdText(v) ==
  CASE v = Null -> "null"
    [] v = Num(7) -> "7"
    [] v.t = "string" -> v.s

\* C26 (as amended): for an identifier-requiring tool under a non-empty API
\* key, a request is issued if and only if the arguments are a non-null
\* object that contains the key id with a value that has a string form: an
\* id that is null, empty or not a string passes, and the path segment is
\* that string form verbatim, without encoding.
C26_AnyIdPasses ==
  \A c \in CallIds :
    calls[c].method = "tools/call" /\ calls[c].name \in IdNames /\ config.apiKey # "" =>
      /\ calls[c].requests # <<>>
           <=> HasIdKey(calls[c].args) /\ ~Unconvertible(Get(calls[c].args, "id"))
      /\ calls[c].requests # <<>> =>
           /\ Len(calls[c].requests) = 1
           /\ calls[c].requests[1].url
                = config.baseUrl \o PrefixOf(calls[c].name) \o "/"
                    \o IdText(Get(calls[c].args, "id"))
      /\ ~HasIdKey(calls[c].args) => calls[c].result = <<MissingIdEnvelope>>

\* C26 as stated: a request is issued if and only if the arguments are a
\* non-null object that contains the key id, whatever its value
C26_Original ==
  \A c \in CallIds :
    calls[c].method = "tools/call" /\ calls[c].name \in IdNames /\ config.apiKey # "" =>
      (calls[c].requests # <<>> <=> HasIdKey(calls[c].args))

\* C26 witness: get_person of {id: "a b/c"} has requested /people/a b/c
C26_Witness ==
  \E c \in CallIds :
    /\ config.apiKey # ""
    /\ calls[c].name = "get_person"
    /\ calls[c].args = Obj(<<Member("id", Str("a b/c"))>>)
    /\ calls[c].requests # <<>>
    /\ calls[c].requests[1].url = "https://api.rogerroger.io/people/a b/c"


====
